---- MODULE Spec2Model ----
(***************************************************************************)
(* Model of the Gmail triage agent: the classifier (classify_email), the   *)
(* label resolver (get_or_create_label) and the pipeline runner            *)
(* (run_gmail_agent / main), in its two variants: the stand-alone script   *)
(* organize_gmail.py and the web application app.py.                       *)
(*                                                                         *)
(* Python strings are modelled as sequences of one-character strings, so   *)
(* that lower(), strip(), the `in` substring test and string formatting    *)
(* are computed rather than assumed.                                       *)
(***************************************************************************)
EXTENDS Integers, Sequences, FiniteSets, TLC

\* ------------------------------------------------------------------------
\* String literals of the source, as character sequences.
\* ------------------------------------------------------------------------
Work ==
    <<"W", "o", "r", "k">>
Personal ==
    <<"P", "e", "r", "s", "o", "n", "a", "l">>
Promotions ==
    <<"P", "r", "o", "m", "o", "t", "i", "o", "n", "s">>
Social ==
    <<"S", "o", "c", "i", "a", "l">>
Updates ==
    <<"U", "p", "d", "a", "t", "e", "s">>
Other ==
    <<"O", "t", "h", "e", "r">>
s_only ==
    <<"o", "n", "l", "y">>
s_work ==
    <<"w", "o", "r", "k">>
s_social ==
    <<"s", "o", "c", "i", "a", "l">>
s_other ==
    <<"o", "t", "h", "e", "r">>
s_work_related ==
    <<"w", "o", "r", "k", "-", "r", "e", "l", "a", "t", "e", "d">>
s_personal ==
    <<"p", "e", "r", "s", "o", "n", "a", "l">>
s_promotional ==
    <<"p", "r", "o", "m", "o", "t", "i", "o", "n", "a", "l">>
s_promo ==
    <<"p", "r", "o", "m", "o">>
s_update ==
    <<"u", "p", "d", "a", "t", "e">>
s_updates ==
    <<"u", "p", "d", "a", "t", "e", "s">>
s_meeting ==
    <<"m", "e", "e", "t", "i", "n", "g">>
s_deadline ==
    <<"d", "e", "a", "d", "l", "i", "n", "e">>
s_project ==
    <<"p", "r", "o", "j", "e", "c", "t">>
s_schedule ==
    <<"s", "c", "h", "e", "d", "u", "l", "e">>
s_report ==
    <<"r", "e", "p", "o", "r", "t">>
NoMessagesFound ==
    <<"N", "o", " ", "m", "e", "s", "s", "a", "g", "e", "s", " ", "f", "o", "u", "n", "d", ".">>
s_Email ==
    <<"E", "m", "a", "i", "l", " ", "'">>
s_classified_as ==
    <<"'", " ", "c", "l", "a", "s", "s", "i", "f", "i", "e", "d", " ", "a", "s", " ">>
s_and_labeled ==
    <<" ", "a", "n", "d", " ", "l", "a", "b", "e", "l", "e", "d", ".">>
s_Processing ==
    <<"P", "r", "o", "c", "e", "s", "s", "i", "n", "g", " ", "e", "m", "a", "i", "l", " ", "w", "i", "t", "h", " ", "s", "u", "b", "j", "e", "c", "t", ":", " ">>
s_Classified ==
    <<"C", "l", "a", "s", "s", "i", "f", "i", "e", "d", " ", "a", "s", ":", " ">>
s_Added ==
    <<"A", "d", "d", "e", "d", " ", "l", "a", "b", "e", "l", " ", "'">>
s_to_email ==
    <<"'", " ", "t", "o", " ", "e", "m", "a", "i", "l", ".", "\n">>
CUSTOM_PROMPT ==
    <<"O", "r", "g", "a", "n", "i", "z", "e", " ", "m", "y", " ", "e", "m", "a", "i", "l", "s", " ", "o", "n", "l", "y", " ", "i", "n", "t", "o", " ", "t", "w", "o", " ", "f", "o", "l", "d", "e", "r", "s", ":", " ", "W", "o", "r", "k", " ", "a", "n", "d", " ", "S", "o", "c", "i", "a", "l", ".">>
PromptShout ==
    <<"O", "N", "L", "Y", " ", "W", "O", "R", "K", " ", "A", "N", "D", " ", "S", "O", "C", "I", "A", "L">>
PromptNoCue ==
    <<"U", "s", "e", " ", "w", "o", "r", "k", " ", "a", "n", "d", " ", "s", "o", "c", "i", "a", "l">>
PromptPlain ==
    <<"S", "o", "r", "t", " ", "m", "y", " ", "m", "a", "i", "l">>
SubjProject ==
    <<"P", "r", "o", "j", "e", "c", "t", " ", "d", "e", "a", "d", "l", "i", "n", "e", " ", "t", "o", "m", "o", "r", "r", "o", "w">>
SubjDinner ==
    <<"D", "i", "n", "n", "e", "r", " ", "p", "l", "a", "n", "s">>
SubjTeam ==
    <<"T", "e", "a", "m", " ", "M", "e", "e", "t", "i", "n", "g", " ", "N", "o", "t", "e", "s">>
SnipShort ==
    <<"S", "e", "e", " ", "y", "o", "u", " ", "a", "t", " ", "7">>
RespWorkPadded ==
    <<" ", "W", "o", "r", "k", " ">>
RespWORK ==
    <<"W", "O", "R", "K">>
RespSentence ==
    <<"T", "h", "i", "s", " ", "i", "s", " ", "W", "o", "r", "k", " ", "r", "e", "l", "a", "t", "e", "d">>
RespNetworking ==
    <<"N", "e", "t", "w", "o", "r", "k", "i", "n", "g">>
RespSpam ==
    <<"S", "p", "a", "m">>
RespSocialUpdates ==
    <<"S", "o", "c", "i", "a", "l", " ", "U", "p", "d", "a", "t", "e", "s">>
RespOTHER ==
    <<"O", "T", "H", "E", "R">>
LabelSOCIAL ==
    <<"S", "O", "C", "I", "A", "L">>
LabelINBOX ==
    <<"I", "N", "B", "O", "X">>
LabelUNREAD ==
    <<"U", "N", "R", "E", "A", "D">>
h_Subject ==
    <<"S", "u", "b", "j", "e", "c", "t">>
h_SUBJECT ==
    <<"S", "U", "B", "J", "E", "C", "T">>
h_From ==
    <<"F", "r", "o", "m">>
s_subject ==
    <<"s", "u", "b", "j", "e", "c", "t">>
SenderAddr ==
    <<"a", "@", "b", ".", "c">>

\* ------------------------------------------------------------------------
\* str.lower(), str.strip(), `sub in s`, "\n".join(...)
\* ------------------------------------------------------------------------
UpperChars ==
    <<"A", "B", "C", "D", "E", "F", "G", "H", "I", "J", "K", "L", "M",
      "N", "O", "P", "Q", "R", "S", "T", "U", "V", "W", "X", "Y", "Z">>

LowerChars ==
    <<"a", "b", "c", "d", "e", "f", "g", "h", "i", "j", "k", "l", "m",
      "n", "o", "p", "q", "r", "s", "t", "u", "v", "w", "x", "y", "z">>

LowerChar(c) ==
    IF \E i \in 1..Len(UpperChars) : UpperChars[i] = c
    THEN LowerChars[CHOOSE i \in 1..Len(UpperChars) : UpperChars[i] = c]
    ELSE c

Lower(s) ==
    [i \in 1..Len(s) |-> LowerChar(s[i])]

Whitespace ==
    {" ", "\t", "\n", "\r"}

RECURSIVE LStrip(_)
LStrip(s) ==
    IF s # <<>> /\ Head(s) \in Whitespace THEN LStrip(Tail(s)) ELSE s

RECURSIVE RStrip(_)
RStrip(s) ==
    IF s # <<>> /\ s[Len(s)] \in Whitespace
    THEN RStrip(SubSeq(s, 1, Len(s) - 1))
    ELSE s

Strip(s) ==
    RStrip(LStrip(s))

\* Python's `sub in s` on strings.
Contains(sub, s) ==
    \E i \in 0..(Len(s) - Len(sub)) : SubSeq(s, i + 1, i + Len(sub)) = sub

\* Python's `x in list`.
InList(x, list) ==
    \E i \in 1..Len(list) : list[i] = x

\* Variant of Join that ends every line, the last one too, with a line break.
RECURSIVE JoinTrailingNewline(_)
JoinTrailingNewline(lines) ==
    IF lines = <<>> THEN <<>>
    ELSE lines[1] \o <<"\n">> \o JoinTrailingNewline(Tail(lines))

RECURSIVE Join(_)
Join(lines) ==
    IF lines = <<>> THEN <<>>
    ELSE IF Len(lines) = 1 THEN lines[1]
    ELSE lines[1] \o <<"\n">> \o Join(Tail(lines))

\* An optional string argument: None, or a text.
None ==
    [present |-> FALSE, text |-> <<>>]

Some(t) ==
    [present |-> TRUE, text |-> t]

\* Python truthiness of an optional string: neither None nor "".
Truthy(opt) ==
    opt.present /\ opt.text # <<>>

\* The outcome of openai.Completion.create: a response text, or an exception.
Response(t) ==
    [ok |-> TRUE, text |-> t]

CompletionError ==
    [ok |-> FALSE, text |-> <<>>]

\* What a call of classify_email does: return a value, or raise.
Return(v) ==
    [raised |-> FALSE, value |-> v]

Raise ==
    [raised |-> TRUE, value |-> <<>>]

\* ------------------------------------------------------------------------
\* classify_email, script variant (organize_gmail.py)
\* ------------------------------------------------------------------------
TwoFolders ==
    <<Work, Social>>

DefaultCategories ==
    <<Work, Personal, Promotions, Social, Updates>>

\* The instruction narrows the category set to Work and Social.
Narrows(custom_prompt) ==
    /\ Truthy(custom_prompt)
    /\ Contains(s_only, Lower(custom_prompt.text))
    /\ Contains(s_work, Lower(custom_prompt.text))
    /\ Contains(s_social, Lower(custom_prompt.text))

allowed_categories(custom_prompt) ==
    IF Narrows(custom_prompt) THEN TwoFolders ELSE DefaultCategories

work_keywords ==
    <<s_meeting, s_deadline, s_project, s_schedule, s_report>>

SubjectHeuristic(subject) ==
    IF \E i \in 1..Len(work_keywords) : Contains(work_keywords[i], Lower(subject))
    THEN Work
    ELSE Social

\* The synonym table, in the dict's insertion order.
mapping ==
    << <<s_work, Work>>, <<s_work_related, Work>>, <<s_personal, Personal>>,
       <<s_promotional, Promotions>>, <<s_promo, Promotions>>,
       <<s_social, Social>>, <<s_update, Updates>>, <<s_updates, Updates>> >>

\* The response matches none of the allowed categories (or is "other").
NoAllowedMatch(raw_category, allowed) ==
    \/ Lower(raw_category) = s_other
    \/ ~ \E i \in 1..Len(allowed) : Contains(Lower(allowed[i]), Lower(raw_category))

MapDefault(raw_category) ==
    LET normalized == Lower(raw_category)
        hits == {i \in 1..Len(mapping) : Contains(mapping[i][1], normalized)}
    IN  IF hits # {}
        THEN mapping[CHOOSE i \in hits : \A j \in hits : i <= j][2]
        ELSE IF InList(raw_category, DefaultCategories) THEN raw_category
        ELSE Updates

MapTwoFolders(raw_category, subject) ==
    LET normalized == Lower(raw_category)
    IN  IF Contains(s_work, normalized) THEN Work
        ELSE IF Contains(s_social, normalized) THEN Social
        ELSE SubjectHeuristic(subject)

\* Variant of the except clause that lets the exception through.
ScriptOnErrorReraise ==
    Raise

\* The except clause of the script: any exception of the try block gives Updates.
ScriptOnError ==
    Return(Updates)

classify_script(subject, snippet, custom_prompt, outcome) ==
    LET allowed == allowed_categories(custom_prompt)
        raw_category == Strip(outcome.text)
    IN  IF ~outcome.ok THEN ScriptOnError
        ELSE IF NoAllowedMatch(raw_category, allowed)
        THEN IF allowed = TwoFolders
             THEN Return(SubjectHeuristic(subject))
             ELSE Return(Updates)
        ELSE IF allowed = TwoFolders
        THEN Return(MapTwoFolders(raw_category, subject))
        ELSE Return(MapDefault(raw_category))

\* ------------------------------------------------------------------------
\* classify_email, web variant (app.py)
\* ------------------------------------------------------------------------
\* The except clause of the web variant: any exception gives Other.
WebOnError ==
    Return(Other)

WebNormalize(category) ==
    IF InList(category, DefaultCategories) THEN category ELSE Other

classify_web(subject, snippet, custom_prompt, outcome) ==
    IF ~outcome.ok THEN WebOnError
    ELSE Return(WebNormalize(Strip(outcome.text)))

classify_email(v, subject, snippet, custom_prompt, outcome) ==
    IF v = "script"
    THEN classify_script(subject, snippet, custom_prompt, outcome)
    ELSE classify_web(subject, snippet, custom_prompt, outcome)

\* ------------------------------------------------------------------------
\* Inputs of the classifier specification.
\* ------------------------------------------------------------------------
Variants ==
    {"script", "web"}

Subjects ==
    {SubjProject, SubjDinner, SubjTeam, <<>>}

Snippets ==
    {SnipShort, <<>>}

Instructions ==
    {None, Some(<<>>), Some(PromptPlain), Some(PromptNoCue),
     Some(CUSTOM_PROMPT), Some(PromptShout)}

ResponseTexts ==
    {Work, Personal, Promotions, Social, Updates, Other,
     s_work, s_work_related, s_personal, s_promotional, s_promo, s_social,
     s_update, s_updates, s_other,
     RespWorkPadded, RespWORK, RespSentence, RespNetworking, RespSpam,
     RespSocialUpdates, RespOTHER, <<>>}

Outcomes ==
    {Response(t) : t \in ResponseTexts} \cup {CompletionError}

\* ------------------------------------------------------------------------
\* The mail provider: label list, message label sets, the mailbox.
\* ------------------------------------------------------------------------
MaxMsgs == 2

MaxUserLabels == 1

maxResults == 10

Runs ==
    {1, 2}

MsgIds ==
    1..MaxMsgs

\* The provider's system labels, which every label list starts with.
SystemLabels ==
    <<[id |-> 1, name |-> LabelINBOX], [id |-> 2, name |-> LabelUNREAD]>>

InboxId ==
    SystemLabels[1].id

UnreadId ==
    SystemLabels[2].id

Header(n, v) ==
    [name |-> n, value |-> v]

\* The messages of the mailbox: headers and the provider's snippet.
MessageShapes ==
    << [headers |-> <<Header(h_From, SenderAddr), Header(h_Subject, SubjTeam)>>,
        snippet |-> SnipShort],
       [headers |-> <<Header(h_SUBJECT, SubjDinner), Header(h_Subject, SubjProject)>>,
        snippet |-> <<>>],
       [headers |-> <<Header(h_From, SenderAddr)>>,
        snippet |-> SnipShort] >>

Message(m) ==
    MessageShapes[((m - 1) % Len(MessageShapes)) + 1]

\* get_message_details: the first header named "subject" (any case), else "".
get_message_details(m) ==
    LET headers == Message(m).headers
        hits == {i \in 1..Len(headers) : Lower(headers[i].name) = s_subject}
    IN  [subject |-> IF hits = {} THEN <<>>
                     ELSE headers[CHOOSE i \in hits : \A j \in hits : i <= j].value,
         snippet |-> Message(m).snippet]

RECURSIVE SelectUnread(_, _)
SelectUnread(ml, m) ==
    IF m > MaxMsgs THEN <<>>
    ELSE IF UnreadId \in ml[m] THEN <<m>> \o SelectUnread(ml, m + 1)
    ELSE SelectUnread(ml, m + 1)

\* messages().list(q="is:unread", maxResults=10): the first page, in provider order.
ListUnreadMessages(ml) ==
    LET all == SelectUnread(ml, 1)
    IN  SubSeq(all, 1, IF Len(all) < maxResults THEN Len(all) ELSE maxResults)

\* Variant of FindLabel that compares the names as they are.
FindLabelCaseSensitive(ls, label_name) ==
    LET hits == {i \in 1..Len(ls) : ls[i].name = label_name}
    IN  IF hits = {} THEN 0
        ELSE ls[CHOOSE i \in hits : \A j \in hits : i <= j].id

\* The loop of get_or_create_label: id of the first label whose name matches
\* label_name case-insensitively, 0 when none does.
FindLabel(ls, label_name) ==
    LET hits == {i \in 1..Len(ls) : Lower(ls[i].name) = Lower(label_name)}
    IN  IF hits = {} THEN 0
        ELSE ls[CHOOSE i \in hits : \A j \in hits : i <= j].id

\* labels().create: the provider appends a label with a fresh id.
ProviderCreate(ls, id, label_name) ==
    Append(ls, [id |-> id, name |-> label_name])

\* Variant of ProviderModify whose request also removes the UNREAD label.
ProviderModifyMarksRead(ml, m, label_id) ==
    [ml EXCEPT ![m] = (@ \cup {label_id}) \ {UnreadId}]

\* messages().modify(body={'addLabelIds': [label_id]})
ProviderModify(ml, m, label_id) ==
    [ml EXCEPT ![m] = @ \cup {label_id}]

UserLabelNames ==
    {s_work, LabelSOCIAL, Updates}

RECURSIVE SeqsUpTo(_, _)
SeqsUpTo(S, n) ==
    IF n = 0 THEN {<<>>}
    ELSE SeqsUpTo(S, n - 1) \cup
         {Append(s, x) : s \in {t \in SeqsUpTo(S, n - 1) : Len(t) = n - 1}, x \in S}

WithIds(names, first) ==
    [i \in 1..Len(names) |-> [id |-> first + i - 1, name |-> names[i]]]

InitialLabelLists ==
    {SystemLabels \o WithIds(names, UnreadId + 1) : names \in SeqsUpTo(UserLabelNames, MaxUserLabels)}

\* The label lists the runs start from: no user label, or a lower-case "work".
RunLabelLists ==
    {SystemLabels, SystemLabels \o WithIds(<<s_work>>, UnreadId + 1)}

\* The mailboxes the runs start from: the first k messages are unread.
InitialMailboxes ==
    {[m \in MsgIds |-> IF m <= k THEN {InboxId, UnreadId} ELSE {InboxId}] : k \in 0..MaxMsgs}

\* ------------------------------------------------------------------------
\* State
\* ------------------------------------------------------------------------
VARIABLES
    variant,        \* which program runs: "script" or "web"
    labels,         \* provider: the label list, in listing order
    nextId,         \* provider: the next fresh label id
    msgLabels,      \* provider: message id -> set of label ids
    pc,             \* per run: the call the run is about to make
    custom_prompt,  \* per run: the instruction
    messages,       \* per run: the listed unread batch
    idx,            \* per run: position of the loop in the batch
    subject,        \* per run: subject of the current message
    snippet,        \* per run: snippet of the current message
    category,       \* per run: category of the current message
    label_id,       \* per run: label id resolved for the current message
    report,         \* per run: the report lines (web) / the lines main prints (script)
    result,         \* per run: what the run returned or raised
    calls,          \* per run: log of the calls the run issued
    overlapped,     \* two runs have been in progress at the same time
    c_subject, c_snippet, c_prompt, c_outcome, c_result,  \* one classify_email call
    g_name, g_log, g_returns                              \* successive get_or_create_label calls

provVars == <<labels, nextId, msgLabels>>
runVars == <<pc, custom_prompt, messages, idx, subject, snippet, category, label_id,
             report, result, calls, overlapped>>
clsVars == <<c_subject, c_snippet, c_prompt, c_outcome, c_result>>
lblVars == <<g_name, g_log, g_returns>>
vars == <<variant, provVars, runVars, clsVars, lblVars>>

Pending ==
    [state |-> "pending", value |-> <<>>]

Returned(v) ==
    [state |-> "returned", value |-> v]

Raised ==
    [state |-> "raised", value |-> <<>>]

\* A logged call: the operation, the message, label name and label id it concerns
\* (0 / <<>> when it has none), and whether it succeeded.
Call(op, m, name, id, ok) ==
    [op |-> op, msg |-> m, name |-> name, label |-> id, ok |-> ok]

RunsIdle ==
    /\ pc = [r \in Runs |-> "idle"]
    /\ custom_prompt = [r \in Runs |-> None]
    /\ messages = [r \in Runs |-> <<>>]
    /\ idx = [r \in Runs |-> 0]
    /\ subject = [r \in Runs |-> <<>>]
    /\ snippet = [r \in Runs |-> <<>>]
    /\ category = [r \in Runs |-> <<>>]
    /\ label_id = [r \in Runs |-> 0]
    /\ report = [r \in Runs |-> <<>>]
    /\ result = [r \in Runs |-> Pending]
    /\ calls = [r \in Runs |-> <<>>]
    /\ overlapped = FALSE

ClassifierIdle ==
    /\ c_subject = <<>>
    /\ c_snippet = <<>>
    /\ c_prompt = None
    /\ c_outcome = CompletionError
    /\ c_result = Pending

ResolverIdle ==
    /\ g_name = <<>>
    /\ g_log = <<>>
    /\ g_returns = <<>>

\* ------------------------------------------------------------------------
\* Specification of one classify_email call on arbitrary inputs.
\* ------------------------------------------------------------------------
InitClassify ==
    /\ variant \in Variants
    /\ labels = SystemLabels
    /\ nextId = UnreadId + 1
    /\ msgLabels = [m \in MsgIds |-> {InboxId}]
    /\ RunsIdle
    /\ ResolverIdle
    /\ c_subject \in Subjects
    /\ c_snippet \in Snippets
    /\ c_prompt \in Instructions
    /\ c_outcome \in Outcomes
    /\ c_result = Pending

ClassifyCall ==
    /\ c_result = Pending
    /\ LET res == classify_email(variant, c_subject, c_snippet, c_prompt, c_outcome)
       IN  c_result' = IF res.raised THEN Raised ELSE Returned(res.value)
    /\ UNCHANGED <<variant, provVars, runVars, lblVars,
                   c_subject, c_snippet, c_prompt, c_outcome>>

NextClassify ==
    ClassifyCall

SpecClassify ==
    InitClassify /\ [][NextClassify]_vars

\* ------------------------------------------------------------------------
\* The pipeline runner: run_gmail_agent (web) and main (script), one action per
\* call the run makes; the provider serves one call at a time.
\* ------------------------------------------------------------------------
RunOutcomes ==
    {Response(Work), CompletionError}

\* The instruction of a run: the form field of the web variant; in the script the
\* CUSTOM_PROMPT of main, as written or left empty.
RunPrompts(v) ==
    IF v = "script" THEN {Some(CUSTOM_PROMPT), Some(<<>>)} ELSE {None, Some(CUSTOM_PROMPT)}

Active(p) ==
    p \notin {"idle", "done", "failed"}

\* What the run hands back when it ends normally: the joined report (web),
\* nothing (script).
Finish(v, lines) ==
    IF v = "web" THEN Returned(Join(lines)) ELSE Returned(<<>>)

ReportLine(subj, cat) ==
    s_Email \o subj \o s_classified_as \o cat \o s_and_labeled

Init ==
    /\ variant \in Variants
    /\ labels \in RunLabelLists
    /\ nextId = Len(labels) + 1
    /\ msgLabels \in InitialMailboxes
    /\ RunsIdle
    /\ ClassifierIdle
    /\ ResolverIdle

\* A run is triggered and gmail_authenticate returns a service.  Runs are
\* numbered in the order they start; every run of the script has the
\* CUSTOM_PROMPT the file was edited to.
Start(r, p) ==
    /\ pc[r] = "idle"
    /\ \A q \in Runs : q < r => pc[q] # "idle"
    /\ variant = "script" => \A q \in Runs : pc[q] # "idle" => custom_prompt[q] = p
    /\ pc' = [pc EXCEPT ![r] = "list_unread"]
    /\ custom_prompt' = [custom_prompt EXCEPT ![r] = p]
    /\ overlapped' = (overlapped \/ \E q \in Runs \ {r} : Active(pc[q]))
    /\ UNCHANGED <<variant, provVars, messages, idx, subject, snippet, category,
                   label_id, report, result, calls, clsVars, lblVars>>

\* messages().list answers; an empty answer ends the run.
ListUnread(r) ==
    /\ pc[r] = "list_unread"
    /\ LET ms == ListUnreadMessages(msgLabels)
       IN  /\ messages' = [messages EXCEPT ![r] = ms]
           /\ calls' = [calls EXCEPT ![r] = Append(@, Call("list_unread", 0, <<>>, 0, TRUE))]
           /\ IF ms = <<>>
              THEN /\ report' = [report EXCEPT ![r] = Append(@, NoMessagesFound)]
                   /\ result' = [result EXCEPT ![r] = Finish(variant, report'[r])]
                   /\ pc' = [pc EXCEPT ![r] = "done"]
                   /\ idx' = idx
              ELSE /\ idx' = [idx EXCEPT ![r] = 1]
                   /\ pc' = [pc EXCEPT ![r] = "get"]
                   /\ UNCHANGED <<report, result>>
    /\ UNCHANGED <<variant, provVars, custom_prompt, subject, snippet, category,
                   label_id, overlapped, clsVars, lblVars>>

\* get_message_details of the current message answers.
GetMessage(r) ==
    /\ pc[r] = "get"
    /\ LET m == messages[r][idx[r]]
           d == get_message_details(m)
       IN  /\ subject' = [subject EXCEPT ![r] = d.subject]
           /\ snippet' = [snippet EXCEPT ![r] = d.snippet]
           /\ calls' = [calls EXCEPT ![r] = Append(@, Call("get", m, <<>>, 0, TRUE))]
           /\ report' = [report EXCEPT ![r] =
                            IF variant = "script" THEN Append(@, s_Processing \o d.subject)
                            ELSE @]
    /\ pc' = [pc EXCEPT ![r] = "classify"]
    /\ UNCHANGED <<variant, provVars, custom_prompt, messages, idx, category, label_id,
                   result, overlapped, clsVars, lblVars>>

\* classify_email of the current message, whatever the completion call does.
Classify(r, outcome) ==
    /\ pc[r] = "classify"
    /\ LET res == classify_email(variant, subject[r], snippet[r], custom_prompt[r], outcome)
           m == messages[r][idx[r]]
       IN  IF res.raised
           THEN /\ pc' = [pc EXCEPT ![r] = "failed"]
                /\ result' = [result EXCEPT ![r] = Raised]
                /\ calls' = [calls EXCEPT ![r] = Append(@, Call("classify", m, <<>>, 0, outcome.ok))]
                /\ UNCHANGED <<category, report>>
           ELSE /\ pc' = [pc EXCEPT ![r] = "list_labels"]
                /\ category' = [category EXCEPT ![r] = res.value]
                /\ calls' = [calls EXCEPT ![r] = Append(@, Call("classify", m, res.value, 0, outcome.ok))]
                /\ report' = [report EXCEPT ![r] =
                                 IF variant = "script" THEN Append(@, s_Classified \o res.value)
                                 ELSE @]
                /\ result' = result
    /\ UNCHANGED <<variant, provVars, custom_prompt, messages, idx, subject, snippet,
                   label_id, overlapped, clsVars, lblVars>>

\* get_or_create_label, first half: labels().list answers and the loop runs.
ListLabels(r) ==
    /\ pc[r] = "list_labels"
    /\ LET found == FindLabel(labels, category[r])
       IN  /\ label_id' = [label_id EXCEPT ![r] = found]
           /\ pc' = [pc EXCEPT ![r] = IF found # 0 THEN "modify" ELSE "create"]
           /\ calls' = [calls EXCEPT ![r] =
                           Append(@, Call("list_labels", messages[r][idx[r]], category[r], found, TRUE))]
    /\ UNCHANGED <<variant, provVars, custom_prompt, messages, idx, subject, snippet,
                   category, report, result, overlapped, clsVars, lblVars>>

\* get_or_create_label, second half: labels().create answers.
CreateLabel(r) ==
    /\ pc[r] = "create"
    /\ labels' = ProviderCreate(labels, nextId, category[r])
    /\ nextId' = nextId + 1
    /\ label_id' = [label_id EXCEPT ![r] = nextId]
    /\ pc' = [pc EXCEPT ![r] = "modify"]
    /\ calls' = [calls EXCEPT ![r] =
                    Append(@, Call("create", messages[r][idx[r]], category[r], nextId, TRUE))]
    /\ UNCHANGED <<variant, msgLabels, custom_prompt, messages, idx, subject, snippet,
                   category, report, result, overlapped, clsVars, lblVars>>

\* Variant of Reported that puts the newest line first.
ReportedNewestFirst(v, lines, subj, cat) ==
    IF v = "web" THEN <<ReportLine(subj, cat)>> \o lines
    ELSE <<s_Added \o cat \o s_to_email>> \o lines

\* The report after the current message has been labeled.
Reported(v, lines, subj, cat) ==
    IF v = "web" THEN Append(lines, ReportLine(subj, cat))
    ELSE Append(lines, s_Added \o cat \o s_to_email)

\* add_label_to_message answers; the loop moves on, or the run ends.
ModifyMessage(r) ==
    /\ pc[r] = "modify"
    /\ LET m == messages[r][idx[r]]
       IN  /\ msgLabels' = ProviderModify(msgLabels, m, label_id[r])
           /\ calls' = [calls EXCEPT ![r] =
                           Append(@, Call("modify", m, category[r], label_id[r], TRUE))]
    /\ report' = [report EXCEPT ![r] = Reported(variant, @, subject[r], category[r])]
    /\ IF idx[r] < Len(messages[r])
       THEN /\ idx' = [idx EXCEPT ![r] = @ + 1]
            /\ pc' = [pc EXCEPT ![r] = "get"]
            /\ result' = result
       ELSE /\ idx' = idx
            /\ pc' = [pc EXCEPT ![r] = "done"]
            /\ result' = [result EXCEPT ![r] = Finish(variant, report'[r])]
    /\ UNCHANGED <<variant, labels, nextId, custom_prompt, messages, subject, snippet,
                   category, label_id, overlapped, clsVars, lblVars>>

ProviderOps ==
    {"list_unread", "get", "list_labels", "create", "modify"}

FailedCall(r) ==
    Call(pc[r],
         IF pc[r] = "list_unread" THEN 0 ELSE messages[r][idx[r]],
         IF pc[r] \in {"create", "list_labels", "modify"} THEN category[r] ELSE <<>>,
         IF pc[r] = "modify" THEN label_id[r] ELSE 0,
         FALSE)

\* Variant of ProviderError that contains the failure: the loop goes on with the
\* next message.
ProviderErrorContained(r) ==
    /\ pc[r] \in ProviderOps
    /\ calls' = [calls EXCEPT ![r] = Append(@, FailedCall(r))]
    /\ IF pc[r] # "list_unread" /\ idx[r] < Len(messages[r])
       THEN /\ idx' = [idx EXCEPT ![r] = @ + 1]
            /\ pc' = [pc EXCEPT ![r] = "get"]
            /\ result' = result
       ELSE /\ idx' = idx
            /\ pc' = [pc EXCEPT ![r] = "done"]
            /\ result' = [result EXCEPT ![r] = Finish(variant, report[r])]
    /\ UNCHANGED <<variant, provVars, custom_prompt, messages, subject, snippet,
                   category, label_id, report, overlapped, clsVars, lblVars>>

\* The mail provider call the run is making fails: nothing catches the
\* exception, the run ends with it.
ProviderError(r) ==
    /\ pc[r] \in ProviderOps
    /\ calls' = [calls EXCEPT ![r] = Append(@, FailedCall(r))]
    /\ pc' = [pc EXCEPT ![r] = "failed"]
    /\ result' = [result EXCEPT ![r] = Raised]
    /\ UNCHANGED <<variant, provVars, custom_prompt, messages, idx, subject, snippet,
                   category, label_id, report, overlapped, clsVars, lblVars>>

Next ==
    \E r \in Runs :
        \/ \E p \in RunPrompts(variant) : Start(r, p)
        \/ ListUnread(r)
        \/ GetMessage(r)
        \/ \E o \in RunOutcomes : Classify(r, o)
        \/ ListLabels(r)
        \/ CreateLabel(r)
        \/ ModifyMessage(r)
        \/ ProviderError(r)

Spec ==
    Init /\ [][Next]_vars

\* ------------------------------------------------------------------------
\* Specification of successive get_or_create_label calls by one caller, on an
\* arbitrary provider label list.
\* ------------------------------------------------------------------------
MaxCalls == 2

ResolvedNames ==
    {Work, Social, Updates, Other}

\* A call that returned is logged with the id it returned; 0 stands for a call
\* that raised.
InitLabel ==
    /\ variant \in Variants
    /\ labels \in InitialLabelLists
    /\ nextId = Len(labels) + 1
    /\ msgLabels = [m \in MsgIds |-> {InboxId}]
    /\ RunsIdle
    /\ ClassifierIdle
    /\ g_name \in ResolvedNames
    /\ g_log = <<>>
    /\ g_returns = <<>>

CanCall ==
    /\ Len(g_returns) < MaxCalls
    /\ \A i \in 1..Len(g_returns) : g_returns[i] # 0

\* The whole of get_or_create_label, every provider call answering.
GetOrCreate ==
    /\ CanCall
    /\ LET found == FindLabel(labels, g_name)
       IN  IF found # 0
           THEN /\ g_log' = Append(g_log, Call("list_labels", 0, g_name, found, TRUE))
                /\ g_returns' = Append(g_returns, found)
                /\ UNCHANGED <<labels, nextId>>
           ELSE /\ labels' = ProviderCreate(labels, nextId, g_name)
                /\ nextId' = nextId + 1
                /\ g_log' = g_log \o <<Call("list_labels", 0, g_name, 0, TRUE),
                                       Call("create", 0, g_name, nextId, TRUE)>>
                /\ g_returns' = Append(g_returns, nextId)
    /\ UNCHANGED <<variant, msgLabels, runVars, clsVars, g_name>>

\* labels().list fails: the call raises.
GetOrCreateListFails ==
    /\ CanCall
    /\ g_log' = Append(g_log, Call("list_labels", 0, g_name, 0, FALSE))
    /\ g_returns' = Append(g_returns, 0)
    /\ UNCHANGED <<variant, provVars, runVars, clsVars, g_name>>

\* No label matches and labels().create fails: the call raises.
GetOrCreateCreateFails ==
    /\ CanCall
    /\ FindLabel(labels, g_name) = 0
    /\ g_log' = g_log \o <<Call("list_labels", 0, g_name, 0, TRUE),
                           Call("create", 0, g_name, 0, FALSE)>>
    /\ g_returns' = Append(g_returns, 0)
    /\ UNCHANGED <<variant, provVars, runVars, clsVars, g_name>>

NextLabel ==
    \/ GetOrCreate
    \/ GetOrCreateListFails
    \/ GetOrCreateCreateFails

SpecLabel ==
    InitLabel /\ [][NextLabel]_vars

\* ------------------------------------------------------------------------
\* Properties
\* ------------------------------------------------------------------------
\* The fallback category of a variant: Updates in the script, Other in the web
\* application.
DefaultFallback(v) ==
    IF v = "script" THEN Updates ELSE Other

\* A label with this id is in the list and its name matches `name`, case aside.
LabelMatches(ls, id, name) ==
    \E i \in 1..Len(ls) : ls[i].id = id /\ Lower(ls[i].name) = Lower(name)

\* Some label of the list matches `name`, case aside.
MatchesAny(ls, name) ==
    \E i \in 1..Len(ls) : Lower(ls[i].name) = Lower(name)

IsOp(c, op) ==
    c.op = op

CallsOf(log, op) ==
    LET Test(c) == IsOp(c, op) IN SelectSeq(log, Test)

\* C1: whatever the subject, snippet, instruction and outcome of the completion
\* call, classify_email returns a member of the allowed category set of the
\* instruction (Work and Social when it narrows, the five default categories
\* otherwise) or the fallback category, and nothing else.
C1_ReturnsAllowedOrFallback ==
    c_result # Pending =>
        /\ c_result.state = "returned"
        /\ \/ InList(c_result.value, IF Narrows(c_prompt) THEN TwoFolders ELSE DefaultCategories)
           \/ c_result.value = DefaultFallback(variant)

\* C2: in the default mode of the script, a response that is exactly a key of
\* the synonym table gives the category the table maps the key to.
C2_SynonymKeyGivesCanonical ==
    \A i \in 1..Len(mapping) :
        ( /\ variant = "script"
          /\ ~Narrows(c_prompt)
          /\ c_outcome = Response(mapping[i][1])
          /\ c_result # Pending )
        => c_result = Returned(mapping[i][2])

\* C3: under a narrowing instruction, a response that contains neither "work"
\* nor "social" gives Work when the lower-cased subject contains one of the
\* work keywords and Social otherwise, never the response text itself.
C3_NarrowedKeywordFallback ==
    ( /\ Narrows(c_prompt)
      /\ c_outcome.ok
      /\ ~Contains(s_work, Lower(c_outcome.text))
      /\ ~Contains(s_social, Lower(c_outcome.text))
      /\ c_result # Pending )
    => c_result = Returned(
           IF \E k \in {s_meeting, s_deadline, s_project, s_schedule, s_report} :
                  Contains(k, Lower(c_subject))
           THEN Work ELSE Social)

\* The label list before the first call: the labels no logged call created.
G_InitialLabels ==
    LET Test(l) == ~ \E i \in 1..Len(g_log) :
                        g_log[i].op = "create" /\ g_log[i].ok /\ g_log[i].label = l.id
    IN  SelectSeq(labels, Test)

\* C4: successive get_or_create_label calls with the same name that all return
\* make one creation call in total when no label matched the name (case aside)
\* before the first call and none when one did, and return the same id.
C4_GetOrCreateIdempotent ==
    ( /\ g_returns # <<>>
      /\ \A i \in 1..Len(g_returns) : g_returns[i] # 0 )
    => /\ Len(CallsOf(g_log, "create")) = IF MatchesAny(G_InitialLabels, g_name) THEN 0 ELSE 1
       /\ \A i \in 1..Len(g_returns) : g_returns[i] = g_returns[1]
       /\ LabelMatches(labels, g_returns[1], g_name)

C4_Witness ==
    /\ Len(g_returns) = 2
    /\ g_returns[1] # 0
    /\ g_returns[2] # 0
    /\ Len(CallsOf(g_log, "create")) = 1

\* C5: a run whose unread listing is empty ends with the report
\* "No messages found." and has made no other call: no label was listed,
\* created or applied, no message fetched or classified.
C5_EmptyListingReportsOnly ==
    \A r \in Runs :
        ( /\ calls[r] # <<>>
          /\ calls[r][1] = Call("list_unread", 0, <<>>, 0, TRUE)
          /\ messages[r] = <<>> )
        => /\ pc[r] = "done"
           /\ calls[r] = <<Call("list_unread", 0, <<>>, 0, TRUE)>>
           /\ report[r] = <<NoMessagesFound>>
           /\ result[r] = Returned(IF variant = "web" THEN NoMessagesFound ELSE <<>>)

C5_Witness ==
    \E r \in Runs :
        /\ variant = "web"
        /\ pc[r] = "done"
        /\ messages[r] = <<>>
        /\ result[r] = Returned(NoMessagesFound)

\* C6: in a run that ended without error, the i-th label-add call is the only
\* one for the i-th message of the batch, it carries the id of a label whose
\* name matches (case aside) the category classify_email returned for that
\* message, and the label is on the message; the report of the web variant is
\* one line per message, in batch order, with the subject and the category.
C6_OneLabelAndOneLinePerMessage ==
    \A r \in Runs :
        (pc[r] = "done" /\ messages[r] # <<>>) =>
            LET mods == CallsOf(calls[r], "modify")
                cls == CallsOf(calls[r], "classify")
                n == Len(messages[r])
            IN  /\ Len(mods) = n
                /\ Len(cls) = n
                /\ \A i \in 1..n :
                       /\ mods[i].msg = messages[r][i]
                       /\ cls[i].msg = messages[r][i]
                       /\ mods[i].ok
                       /\ LabelMatches(labels, mods[i].label, cls[i].name)
                       /\ mods[i].label \in msgLabels[messages[r][i]]
                /\ variant = "web" =>
                       result[r] = Returned(Join(
                           [i \in 1..n |->
                               ReportLine(get_message_details(messages[r][i]).subject,
                                          cls[i].name)]))

C6_Witness ==
    \E r \in Runs :
        /\ variant = "web"
        /\ pc[r] = "done"
        /\ Len(messages[r]) = 2
        /\ Len(CallsOf(calls[r], "modify")) = 2

\* C7: a failed mail-provider call is the last call of its run: the run ends
\* with the exception, hands back no report, fetches, classifies and labels no
\* later message, and the labels it applied before stay on their messages.
C7_ProviderFailureAbortsRun ==
    \A r \in Runs : \A i \in 1..Len(calls[r]) :
        (calls[r][i].op \in ProviderOps /\ ~calls[r][i].ok) =>
            /\ i = Len(calls[r])
            /\ pc[r] = "failed"
            /\ result[r] = Raised
            /\ \A j \in 1..(i - 1) :
                   calls[r][j].op = "modify" =>
                       calls[r][j].label \in msgLabels[calls[r][j].msg]

C7_Witness ==
    \E r \in Runs :
        /\ pc[r] = "failed"
        /\ idx[r] = 2
        /\ Len(messages[r]) = 2
        /\ Len(CallsOf(calls[r], "modify")) = 1
        /\ ~calls[r][Len(calls[r])].ok

\* C8: a failed completion call makes classify_email return the fallback
\* category of the variant, under any instruction; the run goes on to resolve
\* the label, and a run that ends without error has labeled the message with
\* the fallback category's label.
C8_CompletionFailureAbsorbed ==
    \A r \in Runs : \A i \in 1..Len(calls[r]) :
        (calls[r][i].op = "classify" /\ ~calls[r][i].ok) =>
            /\ calls[r][i].name = DefaultFallback(variant)
            /\ i = Len(calls[r]) => (pc[r] = "list_labels" /\ result[r] = Pending)
            /\ pc[r] = "done" =>
                   \E l \in msgLabels[calls[r][i].msg] :
                       LabelMatches(labels, l, DefaultFallback(variant))

C8_Witness ==
    \E r \in Runs :
        /\ pc[r] = "done"
        /\ \E i \in 1..Len(calls[r]) : calls[r][i].op = "classify" /\ ~calls[r][i].ok
        /\ \E i \in 1..Len(calls[r]) : calls[r][i].op = "classify" /\ calls[r][i].ok

\* The creation calls the runs issued, as (run, position) pairs.
CreateCalls ==
    UNION {{<<r, i>> : i \in {j \in 1..Len(calls[r]) : calls[r][j].op = "create"}} : r \in Runs}

Succeeded(cs) ==
    {c \in cs : calls[c[1]][c[2]].ok}

\* Two calls concern the same name, case aside.
SameName(c1, c2) ==
    Lower(calls[c1[1]][c1[2]].name) = Lower(calls[c2[1]][c2[2]].name)

\* The label list before the first run: the labels no logged call created.
InitialLabels ==
    LET Test(l) == ~ \E c \in Succeeded(CreateCalls) : calls[c[1]][c[2]].label = l.id
    IN  SelectSeq(labels, Test)

\* C9 as stated: while runs have never overlapped, at most one creation call
\* has been issued per name (case aside).
C9_SerializedOneCreationCall ==
    ~overlapped =>
        \A c1, c2 \in CreateCalls : SameName(c1, c2) => c1 = c2

\* C9, amended: while runs have never overlapped, at most one creation call
\* per name (case aside) has succeeded, and none for a name a label matched
\* from the start.
C9_SerializedOneCreation ==
    ~overlapped =>
        LET done == Succeeded(CreateCalls)
        IN  /\ \A c1, c2 \in done : SameName(c1, c2) => c1 = c2
            /\ \A c \in done : ~MatchesAny(InitialLabels, calls[c[1]][c[2]].name)

\* The race: two runs listed the labels before either created, and both
\* created a label for the same name.
C9_Witness ==
    /\ overlapped
    /\ \E c1, c2 \in Succeeded(CreateCalls) :
           /\ c1[1] # c2[1]
           /\ SameName(c1, c2)
           /\ \E i, j \in 1..Len(labels) :
                  /\ i # j
                  /\ labels[i].id = calls[c1[1]][c1[2]].label
                  /\ labels[j].id = calls[c2[1]][c2[2]].label

\* C10: a step of a run only adds: every message keeps the labels it had, no
\* label leaves the list, a message that changes is in the batch of a run, the
\* unread listing stays what it was, and a run that lists the unread messages
\* gets the batch every earlier run got.
C10_RunOnlyAdds ==
    [][ /\ \A m \in MsgIds : msgLabels[m] \subseteq msgLabels'[m]
        /\ Len(labels) <= Len(labels') /\ SubSeq(labels', 1, Len(labels)) = labels
        /\ \A m \in MsgIds :
               msgLabels'[m] # msgLabels[m] =>
                   \E r \in Runs : \E i \in 1..Len(messages[r]) : messages[r][i] = m
        /\ ListUnreadMessages(msgLabels') = ListUnreadMessages(msgLabels)
        /\ \A r, q \in Runs :
               (pc[r] = "list_unread" /\ pc'[r] \in {"get", "done"} /\ pc[q] \in {"done", "failed"}
                /\ calls[q][1].ok)
               => messages'[r] = messages[q]
      ]_vars

C10_Witness ==
    /\ pc[1] = "done"
    /\ pc[2] = "done"
    /\ ~overlapped
    /\ Len(messages[1]) = 2
    /\ messages[2] = messages[1]
    /\ \A m \in MsgIds : UnreadId \in msgLabels[m] /\ Cardinality(msgLabels[m]) >= 3
====
